---- MODULE Spec2Model ----
(***************************************************************************)
(* The columnar shredding engine of jsonc: Stripe::push_datum decomposes   *)
(* one Datum into per-path Columns (src/src/columnar.rs), and each Column  *)
(* appends the value after up-casting its data (src/src/columnar/column.rs *)
(* and the earlier Column kept in src/src/columnar.rs).                    *)
(*                                                                         *)
(* Representation.                                                         *)
(*  - A Datum is a record [t, b, n, s, arr, obj]: t is the variant, b the  *)
(*    Bool payload, n the numeric payload, s the String payload (a         *)
(*    sequence of characters), arr the Array elements, obj the Object's    *)
(*    entries as a sequence of [k, v] in the order obj.iter() yields them. *)
(*  - An i8 or i16 is the integer it denotes.  An f64 is modelled by twice *)
(*    its value, so that halves (0.5, 1.5) are values of the model and     *)
(*    `i as f64` is not the identity on the representation.                *)
(*  - A ColumnData is [tag, vec, buf]: vec is the variant's vector (the    *)
(*    end offsets of a String column), buf the String column's character   *)
(*    buffer; the untyped ColumnData::Null holds no vector.  A character   *)
(*    is one byte, so str_buf.len() is the length of buf.                  *)
(*  - A PathComponent is <<"Key", name>> or <<"Array", "">>.               *)
(*  - A panic (todo!(), unreachable!()) sets aborted: the process is gone  *)
(*    and no later push happens.                                          *)
(***************************************************************************)
EXTENDS Integers, Sequences, FiniteSets

VARIABLES
    rev,        \* which Column the Stripe is built with: "columnar" (columnar.rs) or "column" (columnar/column.rs)
    columns,    \* Stripe.columns: Path -> Column
    count,      \* Stripe.count
    aborted,    \* a push panicked
    count0,     \* history: the stripe's count when `pushed` starts
    pushed,     \* history: the Datums handed to push_datum after the first count0
    calls       \* history: the Column::add_datum calls of the last push, in order

vars == <<rev, columns, count, aborted, count0, pushed, calls>>

\* The number of push_datum calls a behaviour makes after its initial state.
MaxRows == 3

----------------------------------------------------------------------------
(* Datum (src/src/datum.rs)                                                *)

Datum(t, b, n, s, arr, obj) ==
    [t |-> t, b |-> b, n |-> n, s |-> s, arr |-> arr, obj |-> obj]

DNull == Datum("Null", FALSE, 0, <<>>, <<>>, <<>>)
DMissing == Datum("Missing", FALSE, 0, <<>>, <<>>, <<>>)
DFloat(f2) == Datum("Float", FALSE, f2, <<>>, <<>>, <<>>)
DTinyInt(i) == Datum("TinyInt", FALSE, i, <<>>, <<>>, <<>>)
DSmallInt(i) == Datum("SmallInt", FALSE, i, <<>>, <<>>, <<>>)
DBool(b) == Datum("Bool", b, 0, <<>>, <<>>, <<>>)
DString(s) == Datum("String", FALSE, 0, s, <<>>, <<>>)
DArray(arr) == Datum("Array", FALSE, 0, <<>>, arr, <<>>)
DObject(obj) == Datum("Object", FALSE, 0, <<>>, <<>>, obj)

KV(k, v) == [k |-> k, v |-> v]

\* Faulty variant of is_null: the bit inverted.
is_not_null(datum) == datum.t # "Null"

is_null(datum) == datum.t = "Null"

\* Faulty variant of is_missing: no value is taken for a Missing.
is_missing_never(datum) == FALSE

\* Faulty variant of is_missing: a Null taken for a Missing.
is_missing_or_null(datum) == datum.t \in {"Missing", "Null"}

is_missing(datum) == datum.t = "Missing"

internal_type(datum) == datum.t

\* Faulty variant of I8AsI16, `i as u8 as i16`: the sign lost.
I8AsU8AsI16(i) == IF i < 0 THEN i + 256 ELSE i

\* `i as i16` of an i8, `i as f64` of an i8 or an i16: exact.
I8AsI16(i) == i

IntAsF64(i) == i + i

----------------------------------------------------------------------------
(* The narrowing casts of an index into an index buffer                    *)

U16Modulus == 65536

AsU16(index) == index % U16Modulus

\* `index as u32` is index % 2^32; every integer of the model is below 2^31,
\* where the cast changes nothing.
AsU32(index) == index

IndexCast(r, index) == IF r = "columnar" THEN AsU16(index) ELSE AsU32(index)

----------------------------------------------------------------------------
(* Column (src/src/columnar/column.rs, and the earlier one in columnar.rs) *)

ColumnData(tag, vec, buf) == [tag |-> tag, vec |-> vec, buf |-> buf]

ColumnDataNull == ColumnData("Null", <<>>, <<>>)

\* Faulty variant of Repeat: the padding forgotten.
RepeatNone(x, n) == <<>>

\* vec![x; n]
Repeat(x, n) == [i \in 1..n |-> x]

\* A faulty variant: one index buffer too many.
ColumnNewDeeper(depth) ==
    [indexes |-> [d \in 1..(depth + 1) |-> <<>>], data |-> ColumnDataNull, null_map |-> <<>>]

\* Column::new
ColumnNew(depth) ==
    [indexes |-> [d \in 1..depth |-> <<>>], data |-> ColumnDataNull, null_map |-> <<>>]

Ok(col) == [col |-> col, panic |-> FALSE]

Panic(col) == [col |-> col, panic |-> TRUE]

\* A faulty variant: a Union column is no wildcard.
IsWildcardNoUnion(tag, data_type) ==
    data_type = "Missing" \/ data_type = "Null"

\* up_cast's first arm: a Null or Missing value and a Union column need no cast.
IsWildcard(tag, data_type) ==
    data_type = "Missing" \/ data_type = "Null" \/ tag = "Union"

\* "Column type matches, we're ok"
TypeMatches(tag, data_type) ==
    \/ tag = "Float" /\ data_type = "Float"
    \/ tag = "TinyInt" /\ data_type = "TinyInt"
    \/ tag = "SmallInt" /\ data_type = "SmallInt"
    \/ tag = "Array" /\ data_type = "Array"
    \/ tag = "String" /\ data_type = "String"
    \/ tag = "Object" /\ data_type = "Object"
    \/ tag = "Bool" /\ data_type = "Bool"

\* "Compatible columns": the column is wider than the value
IsCompatible(tag, data_type) ==
    \/ tag = "SmallInt" /\ data_type = "TinyInt"
    \/ tag = "Float" /\ data_type = "TinyInt"
    \/ tag = "Float" /\ data_type = "SmallInt"

Concrete == {"Bool", "TinyInt", "SmallInt", "Float", "Object", "Array", "String"}

\* Faulty variant of Padded: one default entry too few.
PaddedShort(data_type, len) ==
    LET n == IF len > 0 THEN len - 1 ELSE 0
    IN  IF data_type = "Bool" THEN ColumnData("Bool", Repeat(FALSE, n), <<>>)
        ELSE ColumnData(data_type, Repeat(0, n), <<>>)

\* Faulty variant of Padded: the padding is 1, not the default.
PaddedOnes(data_type, len) ==
    IF data_type = "Bool" THEN ColumnData("Bool", Repeat(FALSE, len), <<>>)
    ELSE ColumnData(data_type, Repeat(1, len), <<>>)

\* "Column type is null, just upcast, padding with default values"
Padded(data_type, len) ==
    CASE data_type = "Bool" -> ColumnData("Bool", Repeat(FALSE, len), <<>>)
      [] data_type = "TinyInt" -> ColumnData("TinyInt", Repeat(0, len), <<>>)
      [] data_type = "SmallInt" -> ColumnData("SmallInt", Repeat(0, len), <<>>)
      [] data_type = "Float" -> ColumnData("Float", Repeat(0, len), <<>>)
      [] data_type = "Object" -> ColumnData("Object", Repeat(0, len), <<>>)
      [] data_type = "Array" -> ColumnData("Array", Repeat(0, len), <<>>)
      [] data_type = "String" -> ColumnData("String", Repeat(0, len), <<>>)

\* "Special cases to upcast numeric types"
IsWidening(tag, data_type) ==
    \/ tag = "TinyInt" /\ data_type = "SmallInt"
    \/ tag = "TinyInt" /\ data_type = "Float"
    \/ tag = "SmallInt" /\ data_type = "Float"

Widened(vec, data_type) ==
    IF data_type = "SmallInt"
    THEN ColumnData("SmallInt", [i \in 1..Len(vec) |-> I8AsI16(vec[i])], <<>>)
    ELSE ColumnData("Float", [i \in 1..Len(vec) |-> IntAsF64(vec[i])], <<>>)

\* Faulty variant of UpCast: a narrower number turns the wider column into its
\* own type.
UpCastNarrowing(col, data_type) ==
    LET tag == col.data.tag
    IN  CASE IsWildcard(tag, data_type) -> Ok(col)
          [] TypeMatches(tag, data_type) -> Ok(col)
          [] IsCompatible(tag, data_type) ->
                Ok([col EXCEPT !.data = ColumnData(data_type, Repeat(0, Len(col.null_map)), <<>>)])
          [] tag = "Null" /\ data_type \in Concrete ->
                Ok([col EXCEPT !.data = Padded(data_type, Len(col.null_map))])
          [] IsWidening(tag, data_type) ->
                Ok([col EXCEPT !.data = Widened(col.data.vec, data_type)])
          [] OTHER -> Panic(col)

\* Column::up_cast of columnar/column.rs; its last arm is todo!().
UpCast(col, data_type) ==
    LET tag == col.data.tag
    IN  CASE IsWildcard(tag, data_type) -> Ok(col)
          [] TypeMatches(tag, data_type) -> Ok(col)
          [] IsCompatible(tag, data_type) -> Ok(col)
          [] tag = "Null" /\ data_type \in Concrete ->
                Ok([col EXCEPT !.data = Padded(data_type, Len(col.null_map))])
          [] IsWidening(tag, data_type) ->
                Ok([col EXCEPT !.data = Widened(col.data.vec, data_type)])
          [] OTHER -> Panic(col)

ConcreteOld == {"Float", "Array", "String", "Object", "Bool"}

\* Column::up_cast of columnar.rs, whose Type has no TinyInt and no SmallInt;
\* its last arm is todo!().
UpCastOld(col, data_type) ==
    LET tag == col.data.tag
    IN  CASE IsWildcard(tag, data_type) -> Ok(col)
          [] tag = data_type /\ tag \in ConcreteOld -> Ok(col)
          [] tag = "Null" /\ data_type \in ConcreteOld ->
                Ok([col EXCEPT !.data = Padded(data_type, Len(col.null_map))])
          [] OTHER -> Panic(col)

\* Union, the entry of a Union column
Union(u, b, n, s) == [u |-> u, b |-> b, n |-> n, s |-> s]

UnionOf(datum) ==
    CASE datum.t = "Null" -> Union("Null", FALSE, 0, <<>>)
      [] datum.t = "Bool" -> Union("Bool", datum.b, 0, <<>>)
      [] datum.t = "TinyInt" -> Union("Float", FALSE, IntAsF64(datum.n), <<>>)
      [] datum.t = "SmallInt" -> Union("Float", FALSE, IntAsF64(datum.n), <<>>)
      [] datum.t = "Float" -> Union("Float", FALSE, datum.n, <<>>)
      [] datum.t = "String" -> Union("String", FALSE, 0, datum.s)
      [] datum.t = "Object" -> Union("Object", FALSE, Len(datum.obj), <<>>)
      [] datum.t = "Array" -> Union("Array", FALSE, Len(datum.arr), <<>>)

\* The match on (&mut self.data, datum) that ends add_datum in columnar/column.rs.
\* The result is [col |-> the data, panic |-> an unreachable!() arm was taken].
PushPayload(data, datum) ==
    LET tag == data.tag
        t == datum.t
        Push(x) == Ok([data EXCEPT !.vec = Append(@, x)])
    IN  CASE tag = "Null" -> IF t = "Null" THEN Ok(data) ELSE Panic(data)
          [] tag = "Bool" ->
                CASE t = "Bool" -> Push(datum.b)
                  [] t = "Null" -> Push(FALSE)
                  [] OTHER -> Panic(data)
          [] tag = "TinyInt" ->
                CASE t = "TinyInt" -> Push(datum.n)
                  [] t = "Null" -> Push(0)
                  [] OTHER -> Panic(data)
          [] tag = "SmallInt" ->
                CASE t = "SmallInt" -> Push(datum.n)
                  [] t = "TinyInt" -> Push(I8AsI16(datum.n))
                  [] t = "Null" -> Push(0)
                  [] OTHER -> Panic(data)
          [] tag = "Float" ->
                CASE t = "Float" -> Push(datum.n)
                  [] t = "SmallInt" -> Push(IntAsF64(datum.n))
                  [] t = "TinyInt" -> Push(IntAsF64(datum.n))
                  [] t = "Null" -> Push(0)
                  [] OTHER -> Panic(data)
          [] tag = "String" ->
                CASE t = "String" ->
                        Ok([data EXCEPT !.buf = @ \o datum.s,
                                        !.vec = Append(@, Len(data.buf \o datum.s))])
                  [] t = "Null" -> Push(Len(data.buf))
                  [] OTHER -> Panic(data)
          [] tag = "Array" ->
                CASE t = "Array" -> Push(Len(datum.arr))
                  [] t = "Null" -> Push(0)
                  [] OTHER -> Panic(data)
          [] tag = "Object" ->
                CASE t = "Object" -> Push(Len(datum.obj))
                  [] t = "Null" -> Push(0)
                  [] OTHER -> Panic(data)
          [] tag = "Union" ->
                IF t = "Missing" THEN Panic(data) ELSE Push(UnionOf(datum))

\* The same match in columnar.rs, whose Datum has no TinyInt and no SmallInt.
PushPayloadOld(data, datum) ==
    LET tag == data.tag
        t == datum.t
        Push(x) == Ok([data EXCEPT !.vec = Append(@, x)])
    IN  CASE tag = "Null" -> IF t = "Null" THEN Ok(data) ELSE Panic(data)
          [] tag = "Bool" ->
                CASE t = "Bool" -> Push(datum.b)
                  [] t = "Null" -> Push(FALSE)
                  [] OTHER -> Panic(data)
          [] tag = "Float" ->
                CASE t = "Float" -> Push(datum.n)
                  [] t = "Null" -> Push(0)
                  [] OTHER -> Panic(data)
          [] tag = "String" ->
                CASE t = "String" ->
                        Ok([data EXCEPT !.buf = @ \o datum.s,
                                        !.vec = Append(@, Len(data.buf \o datum.s))])
                  [] t = "Null" -> Push(Len(data.buf))
                  [] OTHER -> Panic(data)
          [] tag = "Array" ->
                CASE t = "Array" -> Push(Len(datum.arr))
                  [] t = "Null" -> Push(0)
                  [] OTHER -> Panic(data)
          [] tag = "Object" ->
                CASE t = "Object" -> Push(Len(datum.obj))
                  [] t = "Null" -> Push(0)
                  [] OTHER -> Panic(data)
          [] tag = "Union" ->
                IF t = "Missing" THEN Panic(data) ELSE Push(UnionOf(datum))

\* for (index, index_buf) in indexes.iter().zip(self.indexes.iter_mut()):
\* the first min(len, len) buffers each receive the cast index.
PushIndexes(r, bufs, indexes) ==
    [d \in 1..Len(bufs) |->
        IF d <= Len(indexes) THEN Append(bufs[d], IndexCast(r, indexes[d])) ELSE bufs[d]]

\* A faulty variant: the index buffers and the null map pushed before up_cast.
AddDatumPushFirst(r, col, datum, indexes) ==
    LET c0 == [col EXCEPT !.indexes = PushIndexes(r, @, indexes),
                          !.null_map = Append(@, is_null(datum))]
        up == IF r = "columnar" THEN UpCastOld(c0, internal_type(datum))
                                ELSE UpCast(c0, internal_type(datum))
        pay == IF r = "columnar" THEN PushPayloadOld(up.col.data, datum)
                                 ELSE PushPayload(up.col.data, datum)
    IN  IF up.panic THEN Panic(c0)
        ELSE [col |-> [up.col EXCEPT !.data = pay.col], panic |-> pay.panic]

\* Column::add_datum: up_cast, then the index buffers, the null map and the data.
\* A panic in up_cast leaves the column as it was; one in the final match comes
\* after the index buffers and the null map were pushed.
AddDatum(r, col, datum, indexes) ==
    LET up == IF r = "columnar" THEN UpCastOld(col, internal_type(datum))
                                ELSE UpCast(col, internal_type(datum))
        c1 == [up.col EXCEPT !.indexes = PushIndexes(r, @, indexes),
                             !.null_map = Append(@, is_null(datum))]
        pay == IF r = "columnar" THEN PushPayloadOld(c1.data, datum)
                                 ELSE PushPayload(c1.data, datum)
    IN  IF up.panic THEN Panic(col)
        ELSE [col |-> [c1 EXCEPT !.data = pay.col], panic |-> pay.panic]

----------------------------------------------------------------------------
(* Stripe (src/src/columnar.rs)                                            *)

Key(name) == <<"Key", name>>

ArrayComponent == <<"Array", "">>

\* The state a push works on: the stripe's columns, whether a panic has
\* unwound the push, and the add_datum calls made so far.
Work(r, cols) == [rev |-> r, columns |-> cols, aborted |-> FALSE, calls |-> <<>>]

\* self.columns.insert(path.to_vec(), Column::new(indexes.len())) if absent
EnsureColumn(cols, path, depth) ==
    IF path \in DOMAIN cols THEN cols
    ELSE [p \in (DOMAIN cols) \cup {path} |->
            IF p = path THEN ColumnNew(depth) ELSE cols[p]]

RECURSIVE PushDatumAtPath(_, _, _, _)
RECURSIVE PushFields(_, _, _, _, _)
RECURSIVE PushElements(_, _, _, _, _)
RECURSIVE PushFieldsShifted(_, _, _, _, _)
RECURSIVE PushElementsButLast(_, _, _, _, _)

\* Stripe::push_datum_at_path.  Once a panic unwinds, nothing more runs.
PushDatumAtPath(st, datum, path, indexes) ==
    IF st.aborted \/ is_missing(datum) THEN st
    ELSE LET cols == EnsureColumn(st.columns, path, Len(indexes))
             res == AddDatum(st.rev, cols[path], datum, indexes)
             st1 == [st EXCEPT !.columns = [cols EXCEPT ![path] = res.col],
                               !.aborted = res.panic,
                               !.calls = Append(@, [path |-> path, datum |-> datum,
                                                    indexes |-> indexes,
                                                    before |-> cols[path],
                                                    after |-> res.col,
                                                    panic |-> res.panic])]
         IN  CASE datum.t = "Object" -> PushFields(st1, datum.obj, 1, path, indexes)
               [] datum.t = "Array" ->
                     PushElements(st1, datum.arr, 1, Append(path, ArrayComponent),
                                  Append(indexes, 0))
               [] OTHER -> st1

\* A faulty variant: the entries after the first one visited are dropped.
PushFieldsFirst(st, obj, i, path, indexes) ==
    IF i > Len(obj) \/ i > 1 THEN st
    ELSE PushDatumAtPath(st, obj[i].v, Append(path, Key(obj[i].k)), indexes)

\* A faulty variant: the children get the context with its last slot advanced.
PushFieldsShifted(st, obj, i, path, indexes) ==
    IF i > Len(obj) THEN st
    ELSE PushFieldsShifted(PushDatumAtPath(st, obj[i].v, Append(path, Key(obj[i].k)),
                                           [indexes EXCEPT ![Len(indexes)] = @ + 1]),
                           obj, i + 1, path, indexes)

\* for (key, value) in obj.iter(): the entries from the i-th on
PushFields(st, obj, i, path, indexes) ==
    IF i > Len(obj) THEN st
    ELSE PushFields(PushDatumAtPath(st, obj[i].v, Append(path, Key(obj[i].k)), indexes),
                    obj, i + 1, path, indexes)

\* A faulty variant: the last element of the array is not visited.
PushElementsButLast(st, arr, i, child_path, child_indexes) ==
    IF i >= Len(arr) THEN st
    ELSE LET ci == [child_indexes EXCEPT ![Len(child_indexes)] = i - 1]
         IN  PushElementsButLast(PushDatumAtPath(st, arr[i], child_path, ci),
                                 arr, i + 1, child_path, ci)

\* for (idx, datum) in arr.iter().enumerate(): the elements from the i-th on
\* (idx = i - 1), each overwriting the last slot of child_indexes
PushElements(st, arr, i, child_path, child_indexes) ==
    IF i > Len(arr) THEN st
    ELSE LET ci == [child_indexes EXCEPT ![Len(child_indexes)] = i - 1]
         IN  PushElements(PushDatumAtPath(st, arr[i], child_path, ci),
                          arr, i + 1, child_path, ci)

\* A faulty variant: the column at the longest prefix of the path that has one.
get_column_prefix(cols, path) ==
    LET at == {n \in 0..Len(path) : SubSeq(path, 1, n) \in DOMAIN cols}
    IN  IF at = {} THEN <<>>
        ELSE <<cols[SubSeq(path, 1, CHOOSE n \in at : \A m \in at : m <= n)]>>

\* Stripe::get_column
get_column(cols, path) ==
    IF path \in DOMAIN cols THEN <<cols[path]>> ELSE <<>>

----------------------------------------------------------------------------
(* The values pushed                                                       *)

Str(c) == DString(<<c>>)

\* Datums of both revisions: in columnar.rs every number is a Float.
InputsCommon ==
    { DNull, DMissing, DBool(TRUE), DFloat(3), DString(<<"a", "b">>), DString(<<>>),
      DArray(<<>>), DArray(<<DMissing, DNull>>), DArray(<<DArray(<<DFloat(1)>>)>>),
      DObject(<<>>), DObject(<<KV("a", DNull)>>), DObject(<<KV("a", DMissing)>>),
      DObject(<<KV("a", DBool(FALSE))>>), DObject(<<KV("a", Str("x"))>>),
      DObject(<<KV("a", DArray(<<>>))>>),
      DObject(<<KV("a", DArray(<<DFloat(2), DFloat(4)>>))>>),
      DObject(<<KV("a", DFloat(2)), KV("b", Str("x"))>>),
      DObject(<<KV("c", DBool(TRUE)), KV("a", DArray(<<DNull>>)), KV("b", DNull)>>),
      DArray(<<DObject(<<KV("a", DBool(TRUE)), KV("b", DNull)>>), DObject(<<>>)>>) }

\* Datums of columnar/column.rs alone: the integers
InputsInt ==
    { DTinyInt(1), DTinyInt(-128), DSmallInt(300), DSmallInt(-32768),
      DArray(<<DNull, DTinyInt(-1), DSmallInt(300)>>),
      DObject(<<KV("a", DTinyInt(1))>>),
      DObject(<<KV("a", DArray(<<DTinyInt(1), DTinyInt(2)>>))>>),
      DObject(<<KV("b", Str("x")), KV("a", DSmallInt(-300))>>) }

Inputs(r) == IF r = "columnar" THEN InputsCommon ELSE InputsCommon \cup InputsInt

----------------------------------------------------------------------------
(* The behaviours                                                          *)

\* Stripe::new
Init ==
    /\ rev \in {"columnar", "column"}
    /\ columns = <<>>
    /\ count = 0
    /\ aborted = FALSE
    /\ count0 = 0
    /\ pushed = <<>>
    /\ calls = <<>>

\* Stripe::push_datum
PushDatum(datum) ==
    /\ ~aborted
    /\ count < count0 + MaxRows
    /\ LET st == PushDatumAtPath(Work(rev, columns), datum, <<>>, <<count>>)
       IN  /\ columns' = st.columns
           /\ calls' = st.calls
           /\ aborted' = st.aborted
           /\ count' = IF st.aborted THEN count ELSE count + 1
    /\ pushed' = Append(pushed, datum)
    /\ UNCHANGED <<rev, count0>>

Next == \E datum \in Inputs(rev) : PushDatum(datum)

Spec == Init /\ [][Next]_vars

\* A stripe into which U16Modulus - 1 Missing values were pushed: each such
\* push returns at once from push_datum_at_path and increments count.
InitLong ==
    /\ rev = "columnar"
    /\ columns = <<>>
    /\ count = U16Modulus - 1
    /\ aborted = FALSE
    /\ count0 = U16Modulus - 1
    /\ pushed = <<>>
    /\ calls = <<>>

SpecLong == InitLong /\ [][Next]_vars

\* Stripes read back by the persistence codec (Column, ColumnData and Union
\* derive Deserialize) that hold a Union column over two rows: at the root, and
\* under key a of an Object root.
UnionColumn(vec) ==
    [indexes |-> << <<0, 1>> >>, data |-> ColumnData("Union", vec, <<>>),
     null_map |-> <<FALSE, FALSE>>]

UnionStripes ==
    { [p \in {<<>>} |->
            UnionColumn(<<Union("Bool", TRUE, 0, <<>>), Union("String", FALSE, 0, <<"x">>)>>)],
      [p \in {<<>>, <<Key("a")>>} |->
            IF p = <<>>
            THEN [indexes |-> << <<0, 1>> >>, data |-> ColumnData("Object", <<1, 1>>, <<>>),
                  null_map |-> <<FALSE, FALSE>>]
            ELSE UnionColumn(<<Union("Float", FALSE, 2, <<>>),
                               Union("String", FALSE, 0, <<"x">>)>>)] }

UnionRows == 2

InitUnion ==
    /\ rev = "column"
    /\ columns \in UnionStripes
    /\ count = UnionRows
    /\ aborted = FALSE
    /\ count0 = UnionRows
    /\ pushed = <<>>
    /\ calls = <<>>

\* The values pushed into such a stripe: one of every variant at the root and
\* under key a.
UnionInputs ==
    { DNull, DMissing, DBool(TRUE), DFloat(3), DTinyInt(-128), DSmallInt(300),
      DString(<<"a", "b">>), DArray(<<DMissing, DNull>>), DObject(<<>>),
      DObject(<<KV("a", DNull)>>), DObject(<<KV("a", DTinyInt(1))>>),
      DObject(<<KV("a", Str("x"))>>),
      DObject(<<KV("a", DArray(<<DFloat(2), DFloat(4)>>))>>) }

NextUnion == \E datum \in UnionInputs : PushDatum(datum)

SpecUnion == InitUnion /\ [][NextUnion]_vars

\* Column::add_datum called on the column at `path` outside a push, with the
\* row count as the depth-0 index and position 0 below it.
AddDatumDirect(path, datum) ==
    /\ ~aborted
    /\ path \in DOMAIN columns
    /\ LET col == columns[path]
           indexes == [d \in 1..Len(col.indexes) |-> IF d = 1 THEN count ELSE 0]
           res == AddDatum(rev, col, datum, indexes)
       IN  /\ columns' = [columns EXCEPT ![path] = res.col]
           /\ calls' = <<[path |-> path, datum |-> datum, indexes |-> indexes,
                          before |-> col, after |-> res.col, panic |-> res.panic]>>
           /\ aborted' = res.panic
    /\ UNCHANGED <<rev, count, count0, pushed>>

\* The values pushed before such a call: they give a column each data type.
DirectInputs(r) ==
    { DNull, DBool(TRUE), DFloat(3), Str("x"), DArray(<<DMissing, DNull>>),
      DObject(<<KV("a", DMissing)>>) }
        \cup (IF r = "column" THEN {DTinyInt(1), DSmallInt(300)} ELSE {})

\* The value handed to add_datum directly: the one no push hands to it
DirectDatums == {DMissing}

\* Stripe::new with either Column, or a stripe read back with a Union column
InitDirect ==
    /\ rev \in {"columnar", "column"}
    /\ columns \in {<<>>} \cup (IF rev = "column" THEN UnionStripes ELSE {})
    /\ count = (IF columns = <<>> THEN 0 ELSE UnionRows)
    /\ aborted = FALSE
    /\ count0 = count
    /\ pushed = <<>>
    /\ calls = <<>>

NextDirect ==
    \/ \E datum \in DirectInputs(rev) : PushDatum(datum)
    \/ \E path \in DOMAIN columns : \E datum \in DirectDatums : AddDatumDirect(path, datum)

SpecDirect == InitDirect /\ [][NextDirect]_vars

----------------------------------------------------------------------------
(* The two aggregations of src/src/main.rs                                 *)

\* Datum::as_f64: <<the f64>>, or <<>> for None
as_f64(datum) ==
    CASE datum.t = "Float" -> <<datum.n>>
      [] datum.t = "SmallInt" -> <<IntAsF64(datum.n)>>
      [] datum.t = "TinyInt" -> <<IntAsF64(datum.n)>>
      [] OTHER -> <<>>

\* root.get(key) of an Object's HashMap: <<the value>>, or <<>> for None
MapGet(obj, key) ==
    LET at == {j \in 1..Len(obj) : obj[j].k = key}
    IN  IF at = {} THEN <<>> ELSE <<obj[CHOOSE j \in at : TRUE].v>>

ReviewComments == "review_comments"

RECURSIVE RowLoop(_, _, _)

\* for datum in data, from the i-th on, with acc = [sum, count]
RowLoop(data, i, acc) ==
    IF i > Len(data) THEN acc
    ELSE LET datum == data[i]
             got == IF datum.t = "Object" THEN MapGet(datum.obj, ReviewComments) ELSE <<>>
             number == IF got = <<>> THEN <<>> ELSE as_f64(got[1])
         IN  RowLoop(data, i + 1,
                     IF number = <<>> THEN acc
                     ELSE [sum |-> acc.sum + number[1], count |-> acc.count + 1])

\* average_review_comments_hand_rolled_row: the sum and the count it divides
average_review_comments_hand_rolled_row(data) ==
    RowLoop(data, 1, [sum |-> 0, count |-> 0])

RECURSIVE ColumnLoop(_, _, _, _, _)

\* for (number, null) in vec.iter().zip(column.null_map.iter()), from the i-th on
ColumnLoop(vec, null_map, i, widen, acc) ==
    IF i > Len(vec) \/ i > Len(null_map) THEN acc
    ELSE ColumnLoop(vec, null_map, i + 1, widen,
                    IF null_map[i] THEN acc
                    ELSE [sum |-> acc.sum + (IF widen THEN IntAsF64(vec[i]) ELSE vec[i]),
                          count |-> acc.count + 1])

\* average_review_comments_hand_rolled_column: the sum and the count it divides
average_review_comments_hand_rolled_column(cols) ==
    LET found == get_column(cols, <<Key(ReviewComments)>>)
        zero == [sum |-> 0, count |-> 0]
    IN  IF found = <<>> THEN zero
        ELSE LET column == found[1]
                 acc1 == IF column.data.tag = "Float"
                         THEN ColumnLoop(column.data.vec, column.null_map, 1, FALSE, zero)
                         ELSE zero
             IN  IF column.data.tag = "SmallInt"
                 THEN ColumnLoop(column.data.vec, column.null_map, 1, TRUE, acc1)
                 ELSE acc1

\* The records of the aggregation: review_comments present with each numeric
\* subtype, Null, Missing, absent, and a record that is no Object.
AggInputs ==
    { DObject(<<>>), DNull,
      DObject(<<KV(ReviewComments, DTinyInt(1))>>),
      DObject(<<KV(ReviewComments, DTinyInt(-128))>>),
      DObject(<<KV(ReviewComments, DSmallInt(300))>>),
      DObject(<<KV(ReviewComments, DFloat(3))>>),
      DObject(<<KV(ReviewComments, DNull)>>),
      DObject(<<KV(ReviewComments, DMissing)>>),
      DObject(<<KV("a", Str("x")), KV(ReviewComments, DSmallInt(-300))>>) }

\* main.rs is built with the Column of columnar/column.rs.
InitAgg ==
    /\ rev = "column"
    /\ columns = <<>>
    /\ count = 0
    /\ aborted = FALSE
    /\ count0 = 0
    /\ pushed = <<>>
    /\ calls = <<>>

NextAgg == \E datum \in AggInputs : PushDatum(datum)

SpecAgg == InitAgg /\ [][NextAgg]_vars

----------------------------------------------------------------------------
(* What the pushes are to produce, read off the pushed values alone        *)

RECURSIVE Arrive(_, _, _)
RECURSIVE ArriveElements(_, _, _, _)

\* The non-Missing values that the decomposition of d reaches at `path` below
\* d, in visit order, each with the positional indexes that lead to it.
Arrive(d, path, ctx) ==
    IF d.t = "Missing" THEN <<>>
    ELSE IF path = <<>> THEN <<[datum |-> d, indexes |-> ctx]>>
    ELSE IF Head(path) = ArrayComponent
    THEN IF d.t = "Array" THEN ArriveElements(d.arr, 1, Tail(path), ctx) ELSE <<>>
    ELSE IF d.t # "Object" THEN <<>>
    ELSE LET at == {j \in 1..Len(d.obj) : Key(d.obj[j].k) = Head(path)}
         IN  IF at = {} THEN <<>>
             ELSE Arrive(d.obj[CHOOSE j \in at : TRUE].v, Tail(path), ctx)

ArriveElements(arr, i, path, ctx) ==
    IF i > Len(arr) THEN <<>>
    ELSE Arrive(arr[i], path, Append(ctx, i - 1))
            \o ArriveElements(arr, i + 1, path, ctx)

RECURSIVE ArrivedUpTo(_, _)

\* The same over the first n pushes; the i-th pushed value is row count0 + i - 1.
ArrivedUpTo(n, path) ==
    IF n = 0 THEN <<>>
    ELSE ArrivedUpTo(n - 1, path) \o Arrive(pushed[n], path, <<count0 + n - 1>>)

ArrivedAt(path) == ArrivedUpTo(Len(pushed), path)

\* Paths no pushed value has, beside those that some have
PathUniverse ==
    { <<>>, <<Key("a")>>, <<Key("b")>>, <<Key("c")>>, <<ArrayComponent>>,
      <<Key("a"), ArrayComponent>>, <<ArrayComponent, ArrayComponent>>,
      <<Key("a"), Key("a")>>, <<ArrayComponent, Key("a")>>,
      <<ArrayComponent, Key("b")>> }

Entries(path) == IF path \in DOMAIN columns THEN Len(columns[path].null_map) ELSE 0

Last(seq) == seq[Len(seq)]

CallIndexes == 1..Len(calls)

----------------------------------------------------------------------------
(* The claims                                                              *)

\* C1: in every column of the stripe, after any pushes (a panicked one
\* included), every index buffer and the data vector (the end offsets of a String
\* column; none for the untyped Null data) are as long as the null map.
C1_Alignment ==
    \A p \in DOMAIN columns :
        LET col == columns[p]
        IN  /\ \A d \in 1..Len(col.indexes) : Len(col.indexes[d]) = Len(col.null_map)
            /\ col.data.tag # "Null" => Len(col.data.vec) = Len(col.null_map)
            /\ col.data.tag = "Null" => col.data.vec = <<>>

\* A typed column under an array, with two index buffers, that was untyped with
\* entries before (backfilled) and holds three entries.
C1_Witness ==
    \E p \in DOMAIN columns :
        /\ Len(columns[p].indexes) = 2
        /\ columns[p].data.tag \in Concrete
        /\ Len(columns[p].null_map) >= 3
        /\ columns[p].null_map[1]

\* C2: every push of a well-formed Datum completes: no push panics.
C2_PushNeverFails == ~aborted

\* C3: a value of a type with no widening path to or from the column's concrete
\* type turns the column into a Union: the append completes, the earlier entries
\* are re-encoded as Union entries at their positions and the value is appended
\* as a Union entry.
C3_UnionFallback ==
    \A k \in CallIndexes :
        LET c == calls[k]
            T == c.before.data.tag
            U == c.datum.t
            Numeric == {"TinyInt", "SmallInt", "Float"}
        IN  (T \in Concrete /\ U \in Concrete /\ T # U /\ ~(T \in Numeric /\ U \in Numeric))
            => /\ ~c.panic
               /\ c.after.data.tag = "Union"
               /\ Len(c.after.data.vec) = Len(c.before.data.vec) + 1
               /\ \A i \in 1..Len(c.before.data.vec) :
                     c.after.data.vec[i].u = (IF c.before.null_map[i] THEN "Null" ELSE T)
               /\ Last(c.after.data.vec) = UnionOf(c.datum)

\* C4: after any completed pushes, the column at a path holds as many entries as
\* non-Missing values were reached at that path, and a path at which only Missing
\* values (or none) were reached has no column.
C4_MissingInvisible ==
    ~aborted =>
        \A p \in PathUniverse \cup DOMAIN columns :
            /\ Entries(p) = Len(ArrivedAt(p))
            /\ p \in DOMAIN columns <=> ArrivedAt(p) # <<>>

\* {} then {"a": null} then {"a": 1}: two entries at ["a"], null_map [true, false].
C4_Witness ==
    /\ ~aborted
    /\ Len(pushed) = 3
    /\ pushed[1] = DObject(<<>>)
    /\ pushed[2] = DObject(<<KV("a", DNull)>>)
    /\ pushed[3] = DObject(<<KV("a", DTinyInt(1))>>)
    /\ columns[<<Key("a")>>].null_map = <<TRUE, FALSE>>

\* C5: a new stripe has count 0 and no columns; each completed push adds one to
\* count whatever the value is, so that count is the number of completed pushes;
\* and every entry appended during the k-th push carries k in its depth-0
\* index buffer.
C5_CountAndRow ==
    /\ (count0 = 0 /\ pushed = <<>>) => (count = 0 /\ DOMAIN columns = {})
    /\ ~aborted =>
          /\ count = count0 + Len(pushed)
          /\ \A k \in CallIndexes :
                Last(calls[k].after.indexes[1]) = count0 + Len(pushed) - 1

\* The positions of the non-Missing elements of an array, in order.
Present(arr) == {i \in 1..Len(arr) : arr[i].t # "Missing"}

\* The calls of the last push that append under `path` with a context that
\* extends `indexes` by one slot.
ChildCalls(path, indexes) ==
    {j \in CallIndexes :
        /\ calls[j].path = Append(path, ArrayComponent)
        /\ Len(calls[j].indexes) = Len(indexes) + 1
        /\ SubSeq(calls[j].indexes, 1, Len(indexes)) = indexes}

\* C8: an array appended at path p in row r leaves its length in the column at
\* p, and its non-Missing elements are appended to the column at p + Array in
\* position order, the element at position k with the parent's context extended
\* by k; each index buffer receives its slot of the context (the last one k, the
\* depth-0 one r).
C8_ArrayElements ==
    ~aborted =>
        \A k \in CallIndexes :
            LET c == calls[k]
                kids == ChildCalls(c.path, c.indexes)
            IN  c.datum.t = "Array" =>
                  /\ c.after.data.tag = "Array"
                  /\ Last(c.after.data.vec) = Len(c.datum.arr)
                  /\ c.indexes[1] = count0 + Len(pushed) - 1
                  /\ {Last(calls[j].indexes) + 1 : j \in kids} = Present(c.datum.arr)
                  /\ \A j \in kids :
                        /\ j > k
                        /\ calls[j].datum = c.datum.arr[Last(calls[j].indexes) + 1]
                        /\ \A d \in 1..Len(calls[j].indexes) :
                              calls[j].after.indexes[d] =
                                 Append(calls[j].before.indexes[d], calls[j].indexes[d])
                  /\ \A i, j \in kids :
                        i < j => Last(calls[i].indexes) < Last(calls[j].indexes)

\* C9: every entry of every index buffer is the positional index that produced
\* it: the row of the push in buffer 0, the element's position in its array in
\* a deeper buffer.
C9_IndexExact ==
    ~aborted =>
        \A p \in DOMAIN columns :
            \A d \in 1..Len(columns[p].indexes) :
                \A e \in 1..Len(columns[p].indexes[d]) :
                    columns[p].indexes[d][e] = ArrivedAt(p)[e].indexes[d]

NumericWidenings ==
    {<<"TinyInt", "SmallInt">>, <<"TinyInt", "Float">>, <<"SmallInt", "Float">>}

\* The type changes a column may make.
Widens(T, T2) ==
    T2 = T \/ (T = "Null" /\ T2 \in Concrete) \/ <<T, T2>> \in NumericWidenings

\* A value of type U leaves a column of type T as it is.
Keeps(T, U) ==
    U \in {"Null", "Missing"} \/ U = T \/ <<U, T>> \in NumericWidenings

\* C6: a column's type only widens: it stays, or goes from the untyped Null to
\* a concrete type, or TinyInt -> SmallInt, TinyInt -> Float, SmallInt -> Float,
\* over every push and in every append of the push; a Null, a value of the
\* column's type and a narrower number at a wider numeric column leave it.
C6_OnlyWidens ==
    [][ /\ \A p \in DOMAIN columns :
              /\ p \in DOMAIN columns'
              /\ Widens(columns[p].data.tag, columns'[p].data.tag)
        /\ \A k \in 1..Len(calls') :
              LET c == calls'[k]
              IN  /\ Widens(c.before.data.tag, c.after.data.tag)
                  /\ Keeps(c.before.data.tag, c.datum.t)
                        => c.after.data.tag = c.before.data.tag ]_vars

\* A TinyInt appended to a SmallInt column that was a TinyInt column before.
C6_Witness ==
    /\ ~aborted
    /\ Len(pushed) = 3
    /\ pushed[1].t = "TinyInt"
    /\ pushed[2].t = "SmallInt"
    /\ pushed[3].t = "TinyInt"
    /\ columns[<<>>].data.tag = "SmallInt"

\* What a column of type T stores for the integer n: n, and for a Float column
\* the f64 of value n, which the model writes as twice n.
Stored(T, n) == IF T = "Float" THEN 2 * n ELSE n

Integral == {"TinyInt", "SmallInt"}

\* C7: a numeric re-encoding keeps every stored entry at its position with its
\* value, a narrower integer appended to a wider column is stored with its value,
\* and so every integer that arrived at a SmallInt or Float column is there with
\* its value.
C7_WideningExact ==
    /\ \A k \in CallIndexes :
          LET c == calls[k]
              T == c.before.data.tag
              T2 == c.after.data.tag
          IN  /\ (T \in Integral /\ T2 # T) =>
                    /\ Len(c.after.data.vec) = Len(c.before.data.vec) + 1
                    /\ \A i \in 1..Len(c.before.data.vec) :
                          c.after.data.vec[i] = Stored(T2, c.before.data.vec[i])
              /\ (~c.panic /\ c.datum.t \in Integral /\ T2 \in {"SmallInt", "Float"}) =>
                    Last(c.after.data.vec) = Stored(T2, c.datum.n)
    /\ ~aborted =>
          \A p \in DOMAIN columns :
              columns[p].data.tag \in {"SmallInt", "Float"} =>
                  \A e \in 1..Len(ArrivedAt(p)) :
                      ArrivedAt(p)[e].datum.t \in Integral =>
                          columns[p].data.vec[e] =
                              Stored(columns[p].data.tag, ArrivedAt(p)[e].datum.n)

\* A negative 8-bit integer, then a 16-bit integer, then a float at the root.
C7_Witness ==
    /\ ~aborted
    /\ Len(pushed) = 3
    /\ pushed[1] = DTinyInt(-128)
    /\ pushed[2].t = "SmallInt"
    /\ pushed[3].t = "Float"
    /\ columns[<<>>].data.tag = "Float"
    /\ Len(columns[<<>>].data.vec) = 3

\* The entry a column of this data takes for a Null.
Filler(data) ==
    CASE data.tag = "Bool" -> FALSE
      [] data.tag = "String" -> IF data.vec = <<>> THEN 0 ELSE Last(data.vec)
      [] data.tag = "Union" -> Union("Null", FALSE, 0, <<>>)
      [] OTHER -> 0

\* C10: null_map[i] is true exactly when the i-th value that arrived at the
\* column was a Null; every append adds that one bit and keeps the earlier ones;
\* a Null appended to a typed column adds one filler (false, 0, 0.0, the last end
\* offset again with no bytes added, size 0) and keeps the type, the buffer and
\* the earlier data.
C10_NullMap ==
    /\ ~aborted =>
          \A p \in DOMAIN columns :
              /\ Len(columns[p].null_map) = Len(ArrivedAt(p))
              /\ \A e \in 1..Len(ArrivedAt(p)) :
                    columns[p].null_map[e] <=> (ArrivedAt(p)[e].datum.t = "Null")
    /\ \A k \in CallIndexes :
          LET c == calls[k]
          IN  ~c.panic =>
                /\ c.after.null_map = Append(c.before.null_map, c.datum.t = "Null")
                /\ c.datum.t = "Null" =>
                      /\ c.after.data.tag = c.before.data.tag
                      /\ c.after.data.buf = c.before.data.buf
                      /\ IF c.before.data.tag = "Null"
                         THEN c.after.data.vec = <<>>
                         ELSE c.after.data.vec =
                                 Append(c.before.data.vec, Filler(c.before.data))

\* A Null appended to a String column whose buffer holds characters.
C10_Witness ==
    \E k \in CallIndexes :
        /\ calls[k].datum.t = "Null"
        /\ calls[k].before.data.tag = "String"
        /\ calls[k].before.data.buf # <<>>
        /\ Len(calls[k].after.null_map) = 2

\* The default entry of a column of type T, and the entry it stores for a value.
Default(T) == IF T = "Bool" THEN FALSE ELSE 0

Payload(datum) ==
    CASE datum.t = "Bool" -> datum.b
      [] datum.t = "String" -> Len(datum.s)
      [] datum.t = "Object" -> Len(datum.obj)
      [] datum.t = "Array" -> Len(datum.arr)
      [] OTHER -> datum.n

\* C11: an untyped column with L entries, all Nulls, that receives its first
\* value of a concrete type T gets a T vector of L default entries followed by
\* the value (a String column: L zero offsets, then the string's length, the
\* buffer holding the string); the L null bits stay true and the L earlier
\* entries of every index buffer stay.
C11_Backfill ==
    \A k \in CallIndexes :
        LET c == calls[k]
            L == Len(c.before.null_map)
        IN  (c.before.data.tag = "Null" /\ c.datum.t \in Concrete) =>
              /\ ~c.panic
              /\ c.after.data.tag = c.datum.t
              /\ Len(c.after.data.vec) = L + 1
              /\ \A i \in 1..L : c.after.data.vec[i] = Default(c.datum.t)
              /\ c.after.data.vec[L + 1] = Payload(c.datum)
              /\ c.after.data.buf = c.datum.s
              /\ Len(c.after.null_map) = L + 1
              /\ \A i \in 1..L : c.before.null_map[i] /\ c.after.null_map[i]
              /\ ~c.after.null_map[L + 1]
              /\ \A d \in 1..Len(c.before.indexes) :
                    SubSeq(c.after.indexes[d], 1, L) = c.before.indexes[d]

\* A String arriving at an untyped column that holds two Nulls.
C11_Witness ==
    \E k \in CallIndexes :
        /\ calls[k].before.data.tag = "Null"
        /\ Len(calls[k].before.null_map) = 2
        /\ calls[k].datum.t = "String"
        /\ calls[k].after.data.tag = "String"

\* C12: over the records pushed, the sum and the count of the numeric values of
\* review_comments taken from the rows are those taken from the column of the
\* stripe built from the same records.
C12_RowColumnEquivalence ==
    ~aborted =>
        average_review_comments_hand_rolled_row(pushed)
            = average_review_comments_hand_rolled_column(columns)

\* The bijections of 1..n
Bijections(n) ==
    {f \in [1..n -> 1..n] : \A i, j \in 1..n : f[i] = f[j] => i = j}

RECURSIVE Reorderings(_)

\* The values that differ from `datum` only in the order in which the entries
\* of its objects, nested ones included, are visited.
Reorderings(datum) ==
    LET kids == IF datum.t = "Object" THEN [i \in 1..Len(datum.obj) |-> Reorderings(datum.obj[i].v)]
                ELSE [i \in 1..Len(datum.arr) |-> Reorderings(datum.arr[i])]
        n == Len(kids)
        Choices == {ch \in [1..n -> UNION {kids[i] : i \in 1..n}] :
                        \A i \in 1..n : ch[i] \in kids[i]}
    IN  CASE datum.t = "Object" ->
                {DObject([i \in 1..n |-> KV(datum.obj[f[i]].k, ch[f[i]])]) :
                    f \in Bijections(n), ch \in Choices}
          [] datum.t = "Array" -> {DArray(ch) : ch \in Choices}
          [] OTHER -> {datum}

\* C13: a push of a value whose objects have their keys visited in any other
\* order aborts exactly when the push made does, and a push that returns leaves
\* the same paths and, at each path, the same index buffers, null_map and data.
C13_KeyOrder ==
    [][\A other \in Reorderings(Last(pushed')) :
            LET st == PushDatumAtPath(Work(rev, columns), other, <<>>, <<count>>)
            IN  /\ st.aborted = aborted'
                /\ ~aborted' => st.columns = columns']_vars

\* Two pushes of a three-key object have returned.
C13_Witness ==
    /\ ~aborted
    /\ Len(pushed) >= 2
    /\ Last(pushed).t = "Object"
    /\ Len(Last(pushed).obj) = 3
    /\ pushed[Len(pushed) - 1] = Last(pushed)

\* C14: get_column finds a column only at a path at which a non-Missing value
\* was decomposed, after a push that returned at every such path, and at every
\* path that had a column before the push.
C14_GetColumn ==
    [][/\ \A p \in DOMAIN columns : get_column(columns', p) # <<>>
       /\ \A p \in PathUniverse \cup DOMAIN columns' :
            /\ get_column(columns', p) # <<>> => ArrivedAt(p)' # <<>>
            /\ (~aborted' /\ ArrivedAt(p)' # <<>>) => get_column(columns', p) # <<>>]_vars

\* After two pushes there is a column under key a, none under key b and none
\* under a.a, though the root and a have columns.
C14_Witness ==
    /\ Len(pushed) >= 2
    /\ ~aborted
    /\ get_column(columns, <<>>) # <<>>
    /\ get_column(columns, <<Key("a")>>) # <<>>
    /\ get_column(columns, <<Key("b")>>) = <<>>
    /\ get_column(columns, <<Key("a"), Key("a")>>) = <<>>

\* Every index buffer and the data vector of the column are as long as its
\* null map.
Aligned(col) ==
    /\ \A d \in 1..Len(col.indexes) : Len(col.indexes[d]) = Len(col.null_map)
    /\ IF col.data.tag = "Null" THEN col.data.vec = <<>>
       ELSE Len(col.data.vec) = Len(col.null_map)

\* up_cast of the column for the value's type, as the stripe's Column does it
UpCastOf(r, col, datum) ==
    IF r = "columnar" THEN UpCastOld(col, internal_type(datum))
    ELSE UpCast(col, internal_type(datum))

\* C15: when a push has aborted, the panic is that of up_cast in the last
\* add_datum call made, every column of the stripe is aligned, and the column of
\* that call is as it was before the call: its type, data, null map and index
\* buffers.
C15_AbortLeavesAligned ==
    aborted =>
        /\ \A p \in DOMAIN columns : Aligned(columns[p])
        /\ calls # <<>>
        /\ \A k \in 1..(Len(calls) - 1) : ~calls[k].panic
        /\ LET c == Last(calls)
           IN  /\ c.panic
               /\ UpCastOf(rev, c.before, c.datum).panic
               /\ c.after = c.before
               /\ columns[c.path] = c.before

\* A push aborted in its third add_datum call, at a column that held entries.
C15_Witness ==
    /\ aborted
    /\ Len(calls) >= 3
    /\ Len(Last(calls).before.null_map) >= 1
    /\ Last(calls).path # <<>>

\* The Union entry that mirrors a value: a scalar by value, every number as a
\* Float, an Object or an Array by its size.
Mirror(datum) ==
    CASE datum.t = "Null" -> Union("Null", FALSE, 0, <<>>)
      [] datum.t = "Bool" -> Union("Bool", datum.b, 0, <<>>)
      [] datum.t = "String" -> Union("String", FALSE, 0, datum.s)
      [] datum.t \in {"Object", "Array"} -> Union(datum.t, FALSE, Payload(datum), <<>>)
      [] datum.t = "Float" -> Union("Float", FALSE, datum.n, <<>>)
      [] OTHER -> Union("Float", FALSE, Stored("Float", datum.n), <<>>)

\* C16: a Union column is a Union column after every push, and every add_datum
\* call on a Union column finds up_cast a no-op, does not panic, and appends
\* exactly the one entry that mirrors the value.
C16_UnionTerminal ==
    [][/\ \A p \in DOMAIN columns :
            columns[p].data.tag = "Union" =>
                p \in DOMAIN columns' /\ columns'[p].data.tag = "Union"
       /\ \A k \in 1..Len(calls') :
            LET c == calls'[k]
            IN  c.before.data.tag = "Union" =>
                  /\ UpCastOf(rev, c.before, c.datum) = Ok(c.before)
                  /\ ~c.panic
                  /\ c.after.data.tag = "Union"
                  /\ c.after.data.vec = Append(c.before.data.vec, Mirror(c.datum))
                  /\ c.after.null_map = Append(c.before.null_map, c.datum.t = "Null")]_vars

\* A Union column that received three values after the two it was read back
\* with, a number stored as a Float entry and an Array among them.
C16_Witness ==
    \E p \in DOMAIN columns :
        LET vec == columns[p].data.vec
        IN  /\ columns[p].data.tag = "Union"
            /\ Len(vec) = UnionRows + 3
            /\ \E i \in 1..Len(pushed) : pushed[i].t \in {"TinyInt", "SmallInt"}
            /\ \E i \in (UnionRows + 1)..Len(vec) : vec[i].u = "Float"
            /\ \E i \in (UnionRows + 1)..Len(vec) : vec[i].u = "Array"

\* The number of Array components of a path
ArrayComponents(path) == Cardinality({i \in 1..Len(path) : path[i] = ArrayComponent})

\* C17: every column has 1 + (the number of Array components of its path) index
\* buffers, before and after every add_datum call, and every call is made with
\* an index context of that length, each buffer receiving one entry.
C17_IndexBufferCount ==
    /\ \A p \in DOMAIN columns : Len(columns[p].indexes) = 1 + ArrayComponents(p)
    /\ \A k \in CallIndexes :
        LET c == calls[k]
            depth == 1 + ArrayComponents(c.path)
        IN  /\ Len(c.indexes) = depth
            /\ Len(c.before.indexes) = depth
            /\ Len(c.after.indexes) = depth
            /\ ~c.panic =>
                  \A d \in 1..depth :
                      Len(c.after.indexes[d]) = Len(c.before.indexes[d]) + 1

\* Columns with one, two and three index buffers, the deepest appended to twice.
C17_Witness ==
    /\ <<>> \in DOMAIN columns
    /\ <<ArrayComponent>> \in DOMAIN columns
    /\ Len(columns[<<ArrayComponent>>].indexes) = 2
    /\ <<ArrayComponent, ArrayComponent>> \in DOMAIN columns
    /\ Len(columns[<<ArrayComponent, ArrayComponent>>].indexes) = 3
    /\ Len(columns[<<ArrayComponent, ArrayComponent>>].null_map) >= 2

\* The calls of the last push that append at `path` with the context `indexes`
FieldCalls(path, indexes) ==
    {j \in CallIndexes : calls[j].path = path /\ calls[j].indexes = indexes}

\* C18: an object appended at path p with context c leaves its key count in
\* the column at p; each of its non-Missing children is appended, later and
\* once, at p + Key(k) with the same context c, its entry carrying in every
\* index buffer the value the object's entry carries; a Missing child is
\* appended nowhere.
C18_ObjectChildren ==
    ~aborted =>
        \A k \in CallIndexes :
            LET c == calls[k]
            IN  c.datum.t = "Object" =>
                  /\ c.after.data.tag = "Object"
                  /\ Last(c.after.data.vec) = Len(c.datum.obj)
                  /\ \A i \in 1..Len(c.datum.obj) :
                        LET kid == c.datum.obj[i]
                            at == FieldCalls(Append(c.path, Key(kid.k)), c.indexes)
                        IN  /\ Cardinality(at) = IF kid.v.t = "Missing" THEN 0 ELSE 1
                            /\ \A j \in at :
                                  /\ j > k
                                  /\ calls[j].datum = kid.v
                                  /\ Len(calls[j].after.indexes) = Len(c.after.indexes)
                                  /\ \A d \in 1..Len(c.after.indexes) :
                                        Last(calls[j].after.indexes[d])
                                            = Last(c.after.indexes[d])

\* The second push of an array of objects: an object of two keys appended with
\* a context of two slots to a column that holds entries.
C18_Witness ==
    /\ ~aborted
    /\ \E k \in CallIndexes :
          /\ calls[k].datum.t = "Object"
          /\ Len(calls[k].datum.obj) = 2
          /\ Len(calls[k].indexes) = 2
          /\ Len(calls[k].before.null_map) >= 2

\* The end offset before entry i of a String column (0 before the first)
StartOffset(data, i) == IF i = 1 THEN 0 ELSE data.vec[i - 1]

\* The string of entry i: the buffer between the two offsets
EntryString(data, i) == SubSeq(data.buf, StartOffset(data, i) + 1, data.vec[i])

\* C19: in every String column the end offsets never decrease, the last one is
\* the length of the character buffer, and the string of entry i is the string
\* of the i-th value decomposed at the column's path, empty if that value is a
\* Null (an entry padded in when the column got its type included).
C19_StringOffsets ==
    \A p \in DOMAIN columns :
        LET data == columns[p].data
            arrived == ArrivedAt(p)
        IN  data.tag = "String" =>
              /\ \A i \in 1..Len(data.vec) : StartOffset(data, i) <= data.vec[i]
              /\ data.vec # <<>>
              /\ Last(data.vec) = Len(data.buf)
              /\ Len(arrived) >= Len(data.vec)
              /\ \A i \in 1..Len(data.vec) :
                    EntryString(data, i) =
                        IF arrived[i].datum.t = "String" THEN arrived[i].datum.s ELSE <<>>

\* A String column of a padded Null, a string and a later Null.
C19_Witness ==
    \E p \in DOMAIN columns :
        /\ columns[p].data.tag = "String"
        /\ Len(columns[p].data.vec) = 3
        /\ columns[p].null_map = <<TRUE, FALSE, TRUE>>
        /\ Len(columns[p].data.buf) >= 1

\* C20: after every push that returned, in every column the depth-0 index
\* buffer never decreases and holds only rows below the stripe's count, and in
\* a column whose path ends in Array the deepest buffer strictly increases
\* among the entries that agree in all the buffers above it.
C20_IndexOrder ==
    ~aborted =>
        \A p \in DOMAIN columns :
            LET ix == columns[p].indexes
                n == Len(columns[p].null_map)
                d == Len(ix)
            IN  /\ \A i \in 1..n : ix[1][i] < count
                /\ \A i \in 1..(n - 1) : ix[1][i] <= ix[1][i + 1]
                /\ (p # <<>> /\ Last(p) = ArrayComponent) =>
                      \A i, j \in 1..n :
                          (i < j /\ \A e \in 1..(d - 1) : ix[e][i] = ix[e][j])
                              => ix[d][i] < ix[d][j]

RECURSIVE SumOf(_)

\* The sum of a sequence of sizes
SumOf(sizes) == IF sizes = <<>> THEN 0 ELSE Head(sizes) + SumOf(Tail(sizes))

\* The number of Missing elements of a value that is an array (0 for any other)
MissingElements(datum) ==
    IF datum.t = "Array"
    THEN Cardinality({i \in 1..Len(datum.arr) : datum.arr[i].t = "Missing"})
    ELSE 0

\* C21: after every push that returned, the sizes stored in an Array column at
\* path p add up to the number of entries of the column at p + Array plus the
\* number of Missing elements of the arrays decomposed at p; when they add up to
\* 0 there is no column at p + Array.
C21_ArraySizes ==
    ~aborted =>
        \A p \in DOMAIN columns :
            LET child == Append(p, ArrayComponent)
                arrived == ArrivedAt(p)
                total == SumOf(columns[p].data.vec)
            IN  columns[p].data.tag = "Array" =>
                  /\ total = Entries(child)
                        + SumOf([i \in 1..Len(arrived) |-> MissingElements(arrived[i].datum)])
                  /\ total = 0 => child \notin DOMAIN columns

\* An Array column of three entries, one of them an array with a Missing
\* element, over a child column with entries.
C21_Witness ==
    /\ ~aborted
    /\ \E p \in DOMAIN columns :
          /\ columns[p].data.tag = "Array"
          /\ Len(columns[p].data.vec) = 3
          /\ \E i \in 1..Len(ArrivedAt(p)) : MissingElements(ArrivedAt(p)[i].datum) > 0
          /\ \E i \in 1..Len(ArrivedAt(p)) : ArrivedAt(p)[i].datum.t = "Null"
          /\ Entries(Append(p, ArrayComponent)) >= 2

\* C22: no push hands a Missing value to add_datum, and an add_datum call that
\* is handed one panics, whatever the column's data, with no entry added to the
\* data.
C22_MissingAborts ==
    [][/\ pushed' # pushed =>
            \A k \in 1..Len(calls') : calls'[k].datum.t # "Missing"
       /\ \A k \in 1..Len(calls') :
            LET c == calls'[k]
            IN  c.datum.t = "Missing" =>
                  /\ c.panic
                  /\ aborted'
                  /\ c.after.data = c.before.data]_vars

\* add_datum was handed a Missing value on a typed column that pushes, one of
\* them with a Missing child, had given entries.
C22_Witness ==
    /\ aborted
    /\ Len(pushed) >= 2
    /\ \E i \in 1..Len(pushed) : pushed[i].t \in {"Array", "Object"}
    /\ Last(calls).datum.t = "Missing"
    /\ Last(calls).before.data.tag \in Concrete
    /\ Len(Last(calls).before.null_map) >= 2

====
